---- MODULE Spec2Model ----
(***************************************************************************)
(* A model of seedrecover/main.py: the command line driver of seedrecover. *)
(* One run of main() is one behaviour.  The state is main's local          *)
(* variables, the two output streams and the way the process ended.        *)
(* Spec is the program as written: line 100 reads args.key, an attribute   *)
(* parse_args never sets, so a run that passes the configuration checks    *)
(* ends there with AttributeError.  SpecLoop is lines 102-150 on their own.*)
(***************************************************************************)
EXTENDS Integers, Sequences, FiniteSets, TLC

VARIABLES
  args,               \* the argparse.Namespace returned by parse_args()
  stream,             \* environment: what iterate() would yield, each candidate
                      \* given as the outcome of seed_to_stakeaddress on it
  pc,                 \* position of main()
  seed,               \* main's seed (list of candidate word lists)
  length,             \* main's length
  missing_positions,  \* main's missing_positions
  sc,                 \* main's sc (static backend)
  bf,                 \* main's bf (oracle handle)
  already_checked,    \* main's already_checked
  total_seed_phrases,    \* main's counters
  checksum_seed_phrases,
  norepeat_seed_phrases,
  static_calls,       \* addresses passed to sc.check_stake_address, in order
  oracle_calls,       \* <<address, outcome>> of each bf.check_stake_address call, in order
  stdout,             \* lines printed to sys.stdout
  stderr,             \* lines printed to sys.stderr
  raised,             \* the exception that ended the process, if any
  exit_code           \* the exit status of the process, once it has ended

\* What lines 102-150 assign or call.
loop_vars == <<bf, already_checked, total_seed_phrases, checksum_seed_phrases,
               norepeat_seed_phrases, static_calls, oracle_calls>>

vars == <<args, stream, pc, seed, length, missing_positions, sc,
          stdout, stderr, raised, exit_code, loop_vars>>

(***************************************************************************)
(* Bounds of the model.                                                    *)
(***************************************************************************)
MaxKnown == 3        \* at most this many known words on the command line
MaxLengthArg == 4    \* -l ranges over -MaxLengthArg..MaxLengthArg
MaxGiven == 2        \* at most this many -m positions
MaxCandidates == 2   \* at most this many candidates in the stream

(***************************************************************************)
(* Python values.  Optional[T] is a sequence: <<>> is None, <<v>> is v.    *)
(***************************************************************************)
None == <<>>

Some(v) == <<v>>

Range(n) == [i \in 1..(IF n > 0 THEN n ELSE 0) |-> i - 1]

\* The words a user may type: "abel" is not in the word list.
Vocabulary == {"abandon", "ability", "able"}

TypedWord(i) == IF i % 3 = 0 THEN "abel" ELSE IF i % 3 = 1 THEN "abandon" ELSE "ability"

SeedArgs == {[i \in 1..n |-> TypedWord(i)] : n \in 0..MaxKnown}

LengthArgs == {None} \cup {Some(n) : n \in (0 - MaxLengthArg)..MaxLengthArg}

\* 1-based positions a user may give: negative, zero, in range, out of range.
PositionArgs == {0 - 1, 0, 1, MaxLengthArg + 2}

MissingArgs == UNION {[1..n -> PositionArgs] : n \in 0..MaxGiven}

Addresses == {"stake1a", "stake1b"}

AddressArgs == {<<>>, <<"stake1a">>}

BlockfrostArgs == {None, Some("apikey")}

ChecksumError == "ChecksumError"

\* What seed_to_stakeaddress does on one candidate: an address or ChecksumError.
Derivations == Addresses \cup {ChecksumError}

Streams == UNION {[1..n -> Derivations] : n \in 0..MaxCandidates}

\* parse_args: the Namespace has exactly the attributes the parser declares.
parse_args ==
  { [seed |-> s, wordlist |-> None, similar |-> 0, order |-> FALSE,
     length |-> l, missing |-> m, address |-> a, blockfrost |-> b] :
       s \in SeedArgs, l \in LengthArgs, m \in MissingArgs,
       a \in AddressArgs, b \in BlockfrostArgs }

\* Wordlist.contains and Wordlist.get_words with edit distance 0.
contains(word) == word \in Vocabulary

get_words(word, similar) == IF contains(word) THEN <<word>> ELSE <<>>

\* get_seed: the candidate lists and the diagnostics printed on the way.
get_seed(known, similar) ==
  [seed |-> [i \in 1..Len(known) |-> get_words(known[i], similar)],
   err  |-> [i \in 1..Len(known) |->
               <<contains(known[i]), known[i], get_words(known[i], similar)>>]]

\* get_length with the multiple-of-3 check left out.
get_length_no_multiple_check(len, known) ==
  LET unset == len = None \/ len[1] = 0
      l0 == IF unset
              THEN IF known % 3 # 0 THEN known + (3 - (known % 3)) ELSE known
              ELSE len[1]
  IN  IF known > l0
        THEN [exit |-> TRUE, value |-> l0,
              err |-> << <<"More known words than length given!">> >>]
        ELSE [exit |-> FALSE, value |-> l0,
              err |-> << <<l0 - known, "of", l0, "words missing.">> >>]

\* get_length with the known-words check left out.
get_length_no_known_check(len, known) ==
  LET unset == len = None \/ len[1] = 0
      l0 == IF unset
              THEN IF known % 3 # 0 THEN known + (3 - (known % 3)) ELSE known
              ELSE len[1]
  IN  IF l0 % 3 # 0
        THEN [exit |-> TRUE, value |-> l0,
              err |-> << <<"Length is not a multiple of 3!">> >>]
        ELSE [exit |-> FALSE, value |-> l0,
              err |-> << <<l0 - known, "of", l0, "words missing.">> >>]

\* get_length padding the length even when known is a multiple of 3.
get_length_always_pads(len, known) ==
  LET unset == len = None \/ len[1] = 0
      l0 == IF unset THEN known + (3 - (known % 3)) ELSE len[1]
      m0 == IF unset THEN << <<"Length not set. Using smallest length for given phrase.">> >>
                     ELSE <<>>
  IN  IF l0 % 3 # 0
        THEN [exit |-> TRUE, value |-> l0,
              err |-> Append(m0, <<"Length is not a multiple of 3!">>)]
      ELSE IF known > l0
        THEN [exit |-> TRUE, value |-> l0,
              err |-> Append(m0, <<"More known words than length given!">>)]
      ELSE [exit |-> FALSE, value |-> l0,
            err |-> Append(m0, <<l0 - known, "of", l0, "words missing.">>)]

\* get_length: exit is TRUE when exit(1) was called; value is the return value.
get_length(len, known) ==
  LET unset == len = None \/ len[1] = 0
      l0 == IF unset
              THEN IF known % 3 # 0 THEN known + (3 - (known % 3)) ELSE known
              ELSE len[1]
      m0 == IF unset THEN << <<"Length not set. Using smallest length for given phrase.">> >>
                     ELSE <<>>
  IN  IF l0 % 3 # 0
        THEN [exit |-> TRUE, value |-> l0,
              err |-> Append(m0, <<"Length is not a multiple of 3!">>)]
      ELSE IF known > l0
        THEN [exit |-> TRUE, value |-> l0,
              err |-> Append(m0, <<"More known words than length given!">>)]
      ELSE [exit |-> FALSE, value |-> l0,
            err |-> Append(m0, <<l0 - known, "of", l0, "words missing.">>)]

\* get_missing_positions with the count check left out.
get_missing_positions_no_check(given, len, missing) ==
  LET mp0 == [i \in 1..Len(given) |-> given[i] - 1]
      mp  == IF mp0 = <<>> THEN Range(len) ELSE mp0
  IN  [exit |-> FALSE, value |-> mp, err |-> <<>>]

\* get_missing_positions keeping the positions 1-based.
get_missing_positions_one_based(given, len, missing) ==
  LET mp  == IF given = <<>> THEN Range(len) ELSE given
  IN  IF Len(mp) < missing
        THEN [exit |-> TRUE, value |-> mp,
              err |-> << <<"Only", Len(mp), "positions given for missing words!">> >>]
        ELSE [exit |-> FALSE, value |-> mp, err |-> <<>>]

\* get_missing_positions: exit is TRUE when exit(1) was called.
get_missing_positions(given, len, missing) ==
  LET mp0 == [i \in 1..Len(given) |-> given[i] - 1]
      mp  == IF mp0 = <<>> THEN Range(len) ELSE mp0
  IN  IF Len(mp) < missing
        THEN [exit |-> TRUE, value |-> mp,
              err |-> << <<"Only", Len(mp), "positions given for missing words!">> >>]
        ELSE [exit |-> FALSE, value |-> mp, err |-> <<>>]

(***************************************************************************)
(* The run of main().                                                      *)
(***************************************************************************)
Init ==
  /\ args \in parse_args
  /\ stream \in Streams
  /\ pc = "get_seed"
  /\ seed = <<>>
  /\ length = None
  /\ missing_positions = None
  /\ sc = None
  /\ stdout = <<>>
  /\ stderr = <<>>
  /\ raised = None
  /\ exit_code = None
  /\ bf = None
  /\ already_checked = {}
  /\ total_seed_phrases = 0
  /\ checksum_seed_phrases = 0
  /\ norepeat_seed_phrases = 0
  /\ static_calls = <<>>
  /\ oracle_calls = <<>>

\* exit(1): SystemExit leaves the process with status 1.
Exit1(err) ==
  /\ pc' = "exited"
  /\ stderr' = stderr \o err
  /\ raised' = Some("SystemExit")
  /\ exit_code' = Some(1)

\* line 95: seed = get_seed(wordlist, args.seed, args.similar)
GetSeed ==
  /\ pc = "get_seed"
  /\ LET r == get_seed(args.seed, args.similar)
     IN  /\ seed' = r.seed
         /\ stderr' = stderr \o r.err
  /\ pc' = "get_length"
  /\ UNCHANGED <<args, stream, length, missing_positions, sc, stdout, raised, exit_code,
               loop_vars>>

\* line 96: length = get_length(args.length, len(seed))
GetLength ==
  /\ pc = "get_length"
  /\ LET r == get_length(args.length, Len(seed))
     IN  IF r.exit
           THEN /\ Exit1(r.err)
                /\ UNCHANGED length
           ELSE /\ length' = Some(r.value)
                /\ stderr' = stderr \o r.err
                /\ pc' = "get_missing_positions"
                /\ UNCHANGED <<raised, exit_code>>
  /\ UNCHANGED <<args, stream, seed, missing_positions, sc, stdout, loop_vars>>

\* lines 97-98: missing_positions = get_missing_positions(args.missing, length,
\*                                                        length - len(seed))
GetMissingPositions ==
  /\ pc = "get_missing_positions"
  /\ LET r == get_missing_positions(args.missing, length[1], length[1] - Len(seed))
     IN  IF r.exit
           THEN /\ Exit1(r.err)
                /\ UNCHANGED missing_positions
           ELSE /\ missing_positions' = Some(r.value)
                /\ pc' = "static_setup"
                /\ UNCHANGED <<stderr, raised, exit_code>>
  /\ UNCHANGED <<args, stream, seed, length, sc, stdout, loop_vars>>

\* StakeAddresses(args.address): the finite set of the given addresses.
StakeAddresses(address) == {address[i] : i \in 1..Len(address)}

\* lines 99-101: sc = None; if args.key: sc = StakeAddresses(args.address).
\* Reading an attribute the Namespace does not have raises AttributeError, which
\* nothing catches: the interpreter prints the traceback and exits with status 1.
StaticSetup ==
  /\ pc = "static_setup"
  /\ IF "key" \in DOMAIN args
       THEN /\ sc' = IF args.key # <<>>
                       THEN Some(StakeAddresses(args.address)) ELSE None
            /\ pc' = "blockfrost_setup"
            /\ UNCHANGED <<stderr, raised, exit_code>>
       ELSE /\ sc' = None
            /\ pc' = "exited"
            /\ stderr' = Append(stderr,
                 <<"AttributeError: 'Namespace' object has no attribute 'key'">>)
            /\ raised' = Some("AttributeError")
            /\ exit_code' = Some(1)
  /\ UNCHANGED <<args, stream, seed, length, missing_positions, stdout, loop_vars>>

Next ==
  \/ GetSeed
  \/ GetLength
  \/ GetMissingPositions
  \/ StaticSetup

Spec == Init /\ [][Next]_vars

(***************************************************************************)
(* Lines 102-150: the oracle set-up, the enumeration loop, the summary.    *)
(* StaticSetup never hands over to them, so they are not part of Next;     *)
(* SpecLoop below runs them from the states a successful line 100 would    *)
(* have produced.                                                          *)
(***************************************************************************)
MaxLoopCandidates == 3   \* at most this many candidates in SpecLoop's stream

LoopStreams == UNION {[1..n -> Derivations] : n \in 0..MaxLoopCandidates}

\* What BlockFrost.check_stake_address does: an answer, or InactiveError.
OracleAnswers == {"True", "False", "InactiveError"}

\* lines 125-147 for one new address: the two checks and what is printed.
\* answer is the oracle's outcome, looked at only when bf is set.
check_and_report(scv, bfv, address, answer, phrase) ==
  LET searched == scv # None /\ address \in scv[1]
      failed   == bfv # None /\ answer = "InactiveError"
      active   == bfv # None /\ answer = "True"
      verbose  == scv = None /\ (bfv = None \/ failed)
      qualifier == IF searched /\ active
                     THEN << <<"Searched and active stake address found:">> >>
                   ELSE IF searched THEN << <<"Searched stake address found:">> >>
                   ELSE IF active THEN << <<"Active stake address found:">> >>
                   ELSE <<>>
  IN  [bf  |-> IF failed THEN None ELSE bfv,
       err |-> IF failed THEN << <<"InactiveError">> >> ELSE <<>>,
       out |-> IF searched \/ active \/ verbose
                 THEN Append(qualifier, <<address, ":", phrase>>) ELSE <<>>,
       static_called |-> scv # None,
       oracle_called |-> bfv # None]

\* lines 102-108: bf = BlockFrost(args.blockfrost), which may raise InactiveError.
BlockFrostSetup ==
  /\ pc = "blockfrost_setup"
  /\ IF args.blockfrost # None
       THEN \E constructed \in BOOLEAN :
              IF constructed
                THEN /\ bf' = Some(args.blockfrost[1])
                     /\ UNCHANGED stderr
                ELSE /\ bf' = None
                     /\ stderr' = Append(stderr, <<"InactiveError">>)
       ELSE /\ bf' = None
            /\ UNCHANGED stderr
  /\ pc' = "loop_init"
  /\ UNCHANGED <<args, stream, seed, length, missing_positions, sc, stdout, raised,
                 exit_code, already_checked, total_seed_phrases,
                 checksum_seed_phrases, norepeat_seed_phrases, static_calls,
                 oracle_calls>>

\* lines 109-112
LoopInit ==
  /\ pc = "loop_init"
  /\ already_checked' = {}
  /\ total_seed_phrases' = 0
  /\ checksum_seed_phrases' = 0
  /\ norepeat_seed_phrases' = 0
  /\ pc' = "loop"
  /\ UNCHANGED <<args, stream, seed, length, missing_positions, sc, stdout, stderr,
                 raised, exit_code, bf, static_calls, oracle_calls>>

\* lines 113-147: one pass of the loop body, for the next candidate of iterate.
Candidate ==
  /\ pc = "loop"
  /\ total_seed_phrases < Len(stream)
  /\ LET phrase == total_seed_phrases + 1
         stake_address == stream[phrase]
     IN  /\ total_seed_phrases' = total_seed_phrases + 1
         /\ IF stake_address = ChecksumError
              THEN UNCHANGED <<checksum_seed_phrases, already_checked,
                               norepeat_seed_phrases, bf, stdout, stderr,
                               static_calls, oracle_calls>>
            ELSE /\ checksum_seed_phrases' = checksum_seed_phrases + 1
                 /\ IF stake_address \in already_checked
                      THEN UNCHANGED <<already_checked, norepeat_seed_phrases, bf,
                                       stdout, stderr, static_calls, oracle_calls>>
                      ELSE /\ already_checked' = already_checked \cup {stake_address}
                           /\ norepeat_seed_phrases' = norepeat_seed_phrases + 1
                           /\ \E answer \in (IF bf # None THEN OracleAnswers ELSE {"False"}) :
                                LET r == check_and_report(sc, bf, stake_address, answer, phrase)
                                IN  /\ bf' = r.bf
                                    /\ stderr' = stderr \o r.err
                                    /\ stdout' = stdout \o r.out
                                    /\ static_calls' =
                                         IF r.static_called
                                           THEN Append(static_calls, stake_address)
                                           ELSE static_calls
                                    /\ oracle_calls' =
                                         IF r.oracle_called
                                           THEN Append(oracle_calls, <<stake_address, answer>>)
                                           ELSE oracle_calls
  /\ UNCHANGED <<args, stream, pc, seed, length, missing_positions, sc, raised, exit_code>>

\* lines 148-150: the summary, then main returns.
Summary ==
  /\ pc = "loop"
  /\ total_seed_phrases = Len(stream)
  /\ stderr' = stderr \o << <<total_seed_phrases, "seed phrases checked.">>,
                            <<checksum_seed_phrases, "fulfilled checksum.">>,
                            <<norepeat_seed_phrases, "without repetitions.">> >>
  /\ pc' = "exited"
  /\ exit_code' = Some(0)
  /\ UNCHANGED <<args, stream, seed, length, missing_positions, sc, stdout, raised,
                 loop_vars>>

\* The state at line 102 had line 100 chosen sc without raising: every known
\* word given, no length and no positions, so the configuration checks pass.
InitLoop ==
  /\ args \in {a \in parse_args : a.length = None /\ a.missing = <<>>
                                   /\ Len(a.seed) = MaxKnown}
  /\ stream \in LoopStreams
  /\ pc = "blockfrost_setup"
  /\ seed = get_seed(args.seed, args.similar).seed
  /\ length = Some(get_length(args.length, Len(args.seed)).value)
  /\ missing_positions =
       Some(get_missing_positions(args.missing, length[1], length[1] - Len(seed)).value)
  /\ sc \in {None} \cup {Some(StakeAddresses(a)) : a \in {args.address} \ {<<>>}}
  /\ stdout = <<>>
  /\ stderr = get_seed(args.seed, args.similar).err
                \o get_length(args.length, Len(args.seed)).err
  /\ raised = None
  /\ exit_code = None
  /\ bf = None
  /\ already_checked = {}
  /\ total_seed_phrases = 0
  /\ checksum_seed_phrases = 0
  /\ norepeat_seed_phrases = 0
  /\ static_calls = <<>>
  /\ oracle_calls = <<>>

NextLoop ==
  \/ BlockFrostSetup
  \/ LoopInit
  \/ Candidate
  \/ Summary

SpecLoop == InitLoop /\ [][NextLoop]_vars

(***************************************************************************)
(* Properties.                                                             *)
(***************************************************************************)
\* get_length has returned / get_missing_positions has returned.
LengthAccepted == length # None

ConfigAccepted == missing_positions # None

\* main is still in get_seed or get_length, or get_length has ended the run.
NotPastGetLength == pc \in {"get_seed", "get_length", "exited"} /\ length = None

\* The i-th candidate passes the checksum and derives an address not derived before.
IsNew(s, i) == s[i] # ChecksumError /\ \A j \in 1..(i - 1) : s[j] # s[i]

\* The '<address>: <phrase>' line of the i-th candidate.
AddressLine(s, i) == <<s[i], ":", i>>

RECURSIVE VerboseLines(_, _)
VerboseLines(s, i) ==
  IF i > Len(s) THEN <<>>
  ELSE (IF IsNew(s, i) THEN <<AddressLine(s, i)>> ELSE <<>>) \o VerboseLines(s, i + 1)

SearchedQualifiers ==
  {<<"Searched stake address found:">>, <<"Searched and active stake address found:">>}

\* C3: with a non-empty -a list, once the configuration is accepted and the run
\* has ended, the static backend was built from the list and every new candidate
\* whose address is in the list was printed after a "Searched ..." qualifier.
C3_StaticListReported ==
  (args.address # <<>> /\ ConfigAccepted /\ pc = "exited") =>
     /\ sc = Some(StakeAddresses(args.address))
     /\ \A i \in 1..Len(stream) :
          (IsNew(stream, i) /\ stream[i] \in StakeAddresses(args.address)) =>
             \E j \in 1..(Len(stdout) - 1) :
                /\ stdout[j] \in SearchedQualifiers
                /\ stdout[j + 1] = AddressLine(stream, i)

\* A target length was given and is not divisible by 3.
TargetNotMultipleOf3 == args.length # None /\ args.length[1] % 3 # 0

\* C4: when the target length is not divisible by 3, main never gets past
\* get_length: the run ends there with SystemExit and exit code 1, before any
\* backend is built and before anything is printed to stdout.
C4_BadLengthExits ==
  TargetNotMultipleOf3 =>
     /\ NotPastGetLength
     /\ sc = None /\ missing_positions = None /\ stdout = <<>>
     /\ pc = "exited" =>
          /\ exit_code = Some(1)
          /\ raised = Some("SystemExit")
          /\ stderr[Len(stderr)] = <<"Length is not a multiple of 3!">>

C4_Witness ==
  /\ TargetNotMultipleOf3
  /\ pc = "exited"
  /\ exit_code = Some(1)
  /\ Len(args.seed) > 0

\* More known words were given than the (non-zero) target length.
MoreKnownThanTarget ==
  args.length # None /\ args.length[1] # 0 /\ Len(args.seed) > args.length[1]

\* C5 as stated: whenever get_length returns, the length is a positive multiple
\* of 3 and not smaller than the number of known words; more known words than
\* the target length ends in exit code 1.
C5_LengthPositiveMultiple ==
  /\ LengthAccepted =>
       /\ length[1] > 0
       /\ length[1] % 3 = 0
       /\ length[1] >= Len(seed)
  /\ MoreKnownThanTarget =>
       /\ NotPastGetLength
       /\ pc = "exited" => exit_code = Some(1)

\* C5 as amended: whenever get_length returns, the length is a non-negative
\* multiple of 3 and not smaller than the number of known words; it is 0 exactly
\* when there is no known word and the length option is unset or zero; more
\* known words than the target length ends in exit code 1.
C5_LengthMultiple ==
  /\ LengthAccepted =>
       /\ length[1] >= 0
       /\ length[1] % 3 = 0
       /\ length[1] >= Len(seed)
       /\ length[1] = 0 <=>
            (args.seed = <<>> /\ (args.length = None \/ args.length = Some(0)))
  /\ MoreKnownThanTarget =>
       /\ NotPastGetLength
       /\ pc = "exited" => exit_code = Some(1) /\ raised = Some("SystemExit")

C5_Witness ==
  /\ LengthAccepted
  /\ length = Some(0)
  /\ args.length = None

\* The number of missing words main passes to get_missing_positions.
Missing == length[1] - Len(seed)

\* C6: with explicit positions fewer than the missing words the run ends in
\* get_missing_positions with exit code 1 and nothing on stdout; with no
\* positions given get_missing_positions returns 0..length-1.
C6_MissingPositions ==
  LengthAccepted =>
     /\ (args.missing # <<>> /\ Len(args.missing) < Missing) =>
          /\ pc \in {"get_missing_positions", "exited"}
          /\ ~ConfigAccepted /\ sc = None /\ stdout = <<>>
          /\ pc = "exited" =>
               /\ exit_code = Some(1)
               /\ raised = Some("SystemExit")
     /\ (args.missing = <<>> /\ pc # "get_missing_positions") =>
          missing_positions = Some(Range(length[1]))

C6_Witness ==
  /\ LengthAccepted
  /\ args.missing # <<>>
  /\ Len(args.missing) < Missing
  /\ pc = "exited"
  /\ exit_code = Some(1)

\* The entries of a list, as a set.
Entries(mp) == {mp[i] : i \in 1..Len(mp)}

\* C7 as stated: an accepted list holds at least (length - known) distinct
\* positions, each of them in 0..length-1.
C7_DistinctSlotsInRange ==
  ConfigAccepted =>
     /\ Entries(missing_positions[1]) \subseteq 0..(length[1] - 1)
     /\ Cardinality(Entries(missing_positions[1])) >= Missing

\* C7 as amended: an accepted list has at least (length - known) entries, counted
\* with repeats; an explicit list is returned as given, each entry lowered by
\* one and not checked otherwise; the default list is 0..length-1.
C7_EnoughEntries ==
  ConfigAccepted =>
     /\ Len(missing_positions[1]) >= Missing
     /\ args.missing # <<>> =>
          /\ Len(missing_positions[1]) = Len(args.missing)
          /\ \A i \in 1..Len(args.missing) :
               missing_positions[1][i] = args.missing[i] - 1
     /\ args.missing = <<>> =>
          /\ Entries(missing_positions[1]) = 0..(length[1] - 1)
          /\ Len(missing_positions[1]) = length[1]

C7_Witness ==
  /\ ConfigAccepted
  /\ Missing = 2
  /\ missing_positions = Some(<<0 - 1, 0 - 1>>)

\* C8: with neither backend configured, a run that passed the configuration
\* checks ends with exactly the address lines of the new candidates on stdout,
\* in order, and no qualifier line.
C8_VerboseFallback ==
  (ConfigAccepted /\ args.address = <<>> /\ args.blockfrost = None /\ pc = "exited") =>
     stdout = VerboseLines(stream, 1)

(***************************************************************************)
(* The loop taken alone.  The formulas below are checked under SpecLoop.   *)
(* No run of main reaches the loop (StaticSetup), so under Spec they hold  *)
(* of no state that prints an address or builds an oracle.                 *)
(***************************************************************************)
\* The positions of the '<address>: <phrase>' lines on stdout.
AddressLines == {j \in 1..Len(stdout) : Len(stdout[j]) = 3}

\* How often InactiveError was printed.
FailureReports == Cardinality({j \in 1..Len(stderr) : stderr[j] = <<"InactiveError">>})

\* C1, for the loop: no address is printed on two address lines.
Loop_C1_NoAddressTwice ==
  \A i, j \in AddressLines : stdout[i][1] = stdout[j][1] => i = j

Loop_C1_Witness ==
  /\ pc = "exited"
  /\ Len(stream) >= 2 /\ stream[1] = stream[2]
  /\ AddressLines # {}

\* C2, for the loop: once InactiveError was reported no oracle call is added,
\* and with a static backend every new address is passed to it.
Loop_C2_NoCallAfterFailure ==
  [][FailureReports > 0 => oracle_calls' = oracle_calls]_vars

RECURSIVE NewAddresses(_, _, _)
NewAddresses(s, i, n) ==
  IF i > n THEN <<>>
  ELSE (IF IsNew(s, i) THEN <<s[i]>> ELSE <<>>) \o NewAddresses(s, i + 1, n)

Loop_C2_StaticContinues ==
  (sc # None /\ pc \in {"loop", "exited"}) =>
     static_calls = NewAddresses(stream, 1, total_seed_phrases)

Loop_C2_Witness ==
  /\ pc = "exited"
  /\ FailureReports = 1
  /\ sc # None
  /\ Len(static_calls) > Len(oracle_calls)

\* C9, for the loop: InactiveError is printed at most once, and bf, once None
\* after line 108, stays None.
Loop_C9_OneReport ==
  /\ FailureReports <= 1
  /\ (FailureReports = 1 /\ pc \in {"loop_init", "loop", "exited"}) => bf = None

Loop_C9_NeverReenabled ==
  [][(pc \in {"loop_init", "loop", "exited"} /\ bf = None) => bf' = None]_vars

Loop_C9_Witness ==
  /\ pc = "exited"
  /\ FailureReports = 1
  /\ oracle_calls # <<>>
  /\ Len(oracle_calls) < Cardinality(already_checked)

\* C10, for the loop: the line before an address line is the qualifier the two
\* results give, and while bf is set every new address is passed to it.
StaticFound(a) == sc # None /\ a \in sc[1]

OracleActive(a) == \E k \in 1..Len(oracle_calls) : oracle_calls[k] = <<a, "True">>

QualifierBefore(j) == IF j > 1 /\ Len(stdout[j - 1]) = 1 THEN stdout[j - 1] ELSE <<>>

Loop_C10_Qualifier ==
  \A j \in AddressLines :
     LET a == stdout[j][1]
     IN  QualifierBefore(j) =
           IF StaticFound(a) /\ OracleActive(a)
             THEN <<"Searched and active stake address found:">>
           ELSE IF StaticFound(a) THEN <<"Searched stake address found:">>
           ELSE IF OracleActive(a) THEN <<"Active stake address found:">>
           ELSE <<>>

Loop_C10_Witness ==
  /\ pc = "exited"
  /\ \E j \in AddressLines : StaticFound(stdout[j][1]) /\ OracleActive(stdout[j][1])
  /\ \E j \in AddressLines : ~StaticFound(stdout[j][1]) /\ OracleActive(stdout[j][1])

(***************************************************************************)
(* Properties of the configuration arithmetic and of whole runs.           *)
(***************************************************************************)
\* The "<n> of <length> words missing." lines on stderr.
MissingReports == {stderr[j] : j \in {k \in 1..Len(stderr) : Len(stderr[k]) = 4}}

\* C11: with no length given get_length does not exit and returns the smallest
\* multiple of 3 that is >= the number of known words, and the one line it
\* reports says that length minus the known words are missing.
C11_SmallestMultiple ==
  (args.length = None /\ pc \notin {"get_seed", "get_length"}) =>
     /\ LengthAccepted
     /\ length[1] % 3 = 0
     /\ length[1] >= Len(args.seed)
     /\ \A m \in 0..(length[1] - 1) : ~(m % 3 = 0 /\ m >= Len(args.seed))
     /\ MissingReports = {<<length[1] - Len(args.seed), "of", length[1], "words missing.">>}

\* Scenario A: two known words, no length: length 3, one word missing.
C11_Witness ==
  /\ args.length = None
  /\ Len(args.seed) = 2
  /\ length = Some(3)
  /\ <<1, "of", 3, "words missing.">> \in MissingReports

\* The three lines of the summary, as lines 148-150 print them.
SummaryLines ==
  << <<total_seed_phrases, "seed phrases checked.">>,
     <<checksum_seed_phrases, "fulfilled checksum.">>,
     <<norepeat_seed_phrases, "without repetitions.">> >>

SummaryPrinted ==
  /\ Len(stderr) >= 3
  /\ SubSeq(stderr, Len(stderr) - 2, Len(stderr)) = SummaryLines

\* C15: a run that passed the configuration checks ends only after every
\* candidate was processed and the summary was printed, with exit code 0.
C15_RunCompletes ==
  (ConfigAccepted /\ pc = "exited") =>
     /\ total_seed_phrases = Len(stream)
     /\ SummaryPrinted
     /\ raised = None
     /\ exit_code = Some(0)

\* The i-th candidate's address line is on stdout.
Printed(i) == \E j \in AddressLines : stdout[j] = AddressLine(stream, i)

\* The oracle answered (True or False) for address a.
OracleAnswered(a) ==
  \E k \in 1..Len(oracle_calls) :
     oracle_calls[k][1] = a /\ oracle_calls[k][2] \in {"True", "False"}

\* C17: at the end of a run that passed the configuration checks, a new address
\* is printed exactly when the static backend found it, or the oracle found it
\* active, or there is no static backend and the oracle gave no answer for it.
C17_PrintedIff ==
  (ConfigAccepted /\ pc = "exited") =>
     \A i \in 1..Len(stream) :
        IsNew(stream, i) =>
           (Printed(i) <=>
              \/ StaticFound(stream[i])
              \/ OracleActive(stream[i])
              \/ (sc = None /\ ~OracleAnswered(stream[i])))

(***************************************************************************)
(* More of the loop taken alone, checked under SpecLoop.                   *)
(***************************************************************************)
\* The addresses derived from the first n candidates.
Derived(n) == {stream[i] : i \in {k \in 1..n : stream[k] # ChecksumError}}

\* C12, for the loop: the counters and already_checked.
Loop_C12_Counters ==
  pc \in {"loop", "exited"} =>
     /\ norepeat_seed_phrases = Cardinality(already_checked)
     /\ norepeat_seed_phrases <= checksum_seed_phrases
     /\ checksum_seed_phrases <= total_seed_phrases
     /\ total_seed_phrases <= Len(stream)
     /\ checksum_seed_phrases =
          Cardinality({k \in 1..total_seed_phrases : stream[k] # ChecksumError})
     /\ already_checked = Derived(total_seed_phrases)
     /\ pc = "exited" => SummaryPrinted /\ total_seed_phrases = Len(stream)

Loop_C12_Grows ==
  [][already_checked \subseteq already_checked']_vars

Loop_C12_Witness ==
  /\ pc = "exited"
  /\ FailureReports = 1
  /\ norepeat_seed_phrases < checksum_seed_phrases
  /\ checksum_seed_phrases < total_seed_phrases

\* C13, for the loop: address lines come in enumeration order, each with the
\* phrase of the first candidate that derived its address.
Loop_C13_Order ==
  /\ \A j, k \in AddressLines : j < k => stdout[j][3] < stdout[k][3]
  /\ \A j \in AddressLines :
        /\ stdout[j][3] \in 1..total_seed_phrases
        /\ IsNew(stream, stdout[j][3])
        /\ stream[stdout[j][3]] = stdout[j][1]

Loop_C13_Witness ==
  /\ pc = "exited"
  /\ Cardinality(AddressLines) = 2
  /\ Len(stream) = 3 /\ stream[1] = stream[2]

\* C14, for the loop: a candidate failing the checksum changes total_seed_phrases only.
Loop_C14_ChecksumFrame ==
  [][(pc = "loop" /\ total_seed_phrases < Len(stream)
        /\ stream[total_seed_phrases + 1] = ChecksumError) =>
       /\ total_seed_phrases' = total_seed_phrases + 1
       /\ UNCHANGED <<already_checked, checksum_seed_phrases, norepeat_seed_phrases,
                      bf, static_calls, oracle_calls, stdout, stderr, pc>>]_vars

Loop_C14_Witness ==
  /\ pc = "loop"
  /\ total_seed_phrases = 2
  /\ stream[2] = ChecksumError
  /\ bf # None
  /\ checksum_seed_phrases = 1

\* C15, for the loop: until main has returned some step is possible, and it
\* returns only after the last candidate, with the summary printed.
Loop_C15_Completes ==
  /\ pc # "exited" => ENABLED NextLoop
  /\ pc = "exited" =>
       /\ total_seed_phrases = Len(stream)
       /\ SummaryPrinted
       /\ exit_code = Some(0)

\* C16, for the loop: no address is passed to the oracle twice, and a candidate
\* whose address is in already_checked causes no call.
Loop_C16_OncePerAddress ==
  \A k, l \in 1..Len(oracle_calls) :
     oracle_calls[k][1] = oracle_calls[l][1] => k = l

Loop_C16_NoCallOnDuplicate ==
  [][(pc = "loop" /\ total_seed_phrases < Len(stream)
        /\ stream[total_seed_phrases + 1] \in already_checked) =>
       UNCHANGED <<static_calls, oracle_calls>>]_vars

Loop_C16_Witness ==
  /\ pc = "exited"
  /\ Len(oracle_calls) = 1
  /\ oracle_calls[1][2] = "InactiveError"
  /\ Len(stream) = 3 /\ stream[1] = stream[3] /\ stream[2] # stream[1]
  /\ stream[2] # ChecksumError

\* C17, for the loop: with a static backend nothing is printed without a hit;
\* with the oracle alone, once it failed every new address is printed bare.
Loop_C17_StaticNeverBare ==
  sc # None =>
     \A j \in AddressLines : StaticFound(stdout[j][1]) \/ OracleActive(stdout[j][1])

Loop_C17_Witness ==
  /\ pc = "exited"
  /\ sc = None
  /\ FailureReports = 1
  /\ oracle_calls # <<>>
  /\ \E j \in AddressLines : QualifierBefore(j) = <<>>

====
